---- MODULE Spec2Model ----
(***************************************************************************)
(* Model of the analytics module (src/unnamed/part_000): the app_analytics *)
(* table as delivered by the store, the trackEvent family that writes to   *)
(* it, and getAnalyticsStats, which fetches the rows and aggregates them.  *)
(*                                                                         *)
(* Strings are modelled as integers: NULL is null/undefined, EMPTY is the  *)
(* empty string "", and every k >= 1 is a distinct non-empty string.       *)
(* Timestamps are integers counting hours; the store compares them as the  *)
(* database does, and getHours takes them modulo 24.                       *)
(***************************************************************************)
EXTENDS Integers, Sequences, FiniteSets, TLC

VARIABLES store,     \* rows of app_analytics, in the order the query delivers them
          nTracked,  \* rows written since the initial state
          pc,        \* "idle" | "returned" | "threw": completion of getAnalyticsStats
          filters,   \* argument of the getAnalyticsStats call
          fetch,     \* what the awaited query produced: "ok" | "null" | "error" | "throw"
          events,    \* the local `events` of getAnalyticsStats
          stats      \* the AnalyticsStats the call returned

vars == <<store, nTracked, pc, filters, fetch, events, stats>>

----------------------------------------------------------------------------
(* Values *)

NULL == -1
EMPTY == 0
NoType == ""

\* JavaScript truthiness of a string | null | undefined value
Truthy(v) == v # NULL /\ v # EMPTY

\* a || b
OrElse(a, b) == IF Truthy(a) THEN a ELSE b

\* meta: null
NoMeta == [present |-> FALSE, code |-> NULL, brand |-> NULL, errorCode |-> NULL]

\* meta: { code, brand, errorCode }, each possibly undefined
Meta(code, brand, errorCode) ==
    [present |-> TRUE, code |-> code, brand |-> brand, errorCode |-> errorCode]

\* A row of app_analytics; id and device_id are never read by the aggregation
AnalyticsEvent(user_id, event_type, path, meta, timestamp) ==
    [user_id |-> user_id, event_type |-> event_type, path |-> path,
     meta |-> meta, timestamp |-> timestamp]

\* e.meta?.key
MetaGet(e, key) == IF e.meta.present THEN e.meta[key] ELSE NULL

----------------------------------------------------------------------------
(* Bounds of the model *)

MaxSeed == 16     \* rows already in the table at the initial state
MaxExtra == 2     \* rows written by the actions

\* The calls the actions draw from.  user and pathname are what
\* supabase.auth.getUser() and window.location.pathname give the call, now is
\* its clock: 1 is older and 57 newer than every initial row, and user 11 is
\* the user of the 11th initial row.
PageViewCalls == {[user |-> NULL, pathname |-> 1, now |-> 1, path |-> EMPTY],
                  [user |-> 11, pathname |-> 1, now |-> 57, path |-> 11]}
SearchCalls == {[user |-> NULL, pathname |-> 1, now |-> 1, code |-> EMPTY, brand |-> 11],
                [user |-> 11, pathname |-> 1, now |-> 57, code |-> 11, brand |-> NULL]}
ClickCalls == {[user |-> NULL, pathname |-> 1, now |-> 1, code |-> 11, brand |-> 11, errorCode |-> 16]}
ErrorCodeViewCalls == {[user |-> 11, pathname |-> 1, now |-> 57, code |-> 16]}
\* Rows written by other clients of the table
ForeignRows == {[user_id |-> EMPTY, path |-> EMPTY, timestamp |-> 1],
                [user_id |-> NULL, path |-> NULL, timestamp |-> 60]}
FilterSets == {[startDate |-> NULL, endDate |-> NULL, eventType |-> NoType],
               [startDate |-> 12, endDate |-> 57, eventType |-> "search"]}

----------------------------------------------------------------------------
(* The store: select * from app_analytics order by timestamp desc *)

OrderedDesc(rows) ==
    \A i \in 1..Len(rows) - 1 : rows[i].timestamp >= rows[i + 1].timestamp

InsertAt(rows, p, e) ==
    SubSeq(rows, 1, p - 1) \o <<e>> \o SubSeq(rows, p, Len(rows))

\* The delivery orders the store may produce once e is in the table: rows with
\* equal timestamps come in an order the database chooses.
Inserted(rows, e) ==
    {InsertAt(rows, p, e) : p \in {q \in 1..Len(rows) + 1 : OrderedDesc(InsertAt(rows, q, e))}}

\* query.gte("timestamp", startDate).lte("timestamp", endDate), each only when given
Query(rows, f) ==
    LET Keep(e) == /\ (Truthy(f.startDate) => e.timestamp >= f.startDate)
                   /\ (Truthy(f.endDate) => e.timestamp <= f.endDate)
    IN SelectSeq(rows, Keep)

----------------------------------------------------------------------------
(* trackEvent and its wrappers: the row each one inserts *)

trackEvent(user, pathname, now, eventType, path, meta) ==
    AnalyticsEvent(OrElse(user, NULL), eventType, OrElse(path, pathname), meta, now)

trackPageView(user, pathname, now, path) ==
    trackEvent(user, pathname, now, "page_view", path, NoMeta)

trackSearch(user, pathname, now, code, brand) ==
    trackEvent(user, pathname, now, "search", NULL, Meta(code, brand, NULL))

trackClick(user, pathname, now, meta) ==
    trackEvent(user, pathname, now, "click", NULL, meta)

trackErrorCodeView(user, pathname, now, code) ==
    trackEvent(user, pathname, now, "error_code_view", NULL, Meta(NULL, NULL, code))

----------------------------------------------------------------------------
(* Aggregation *)

\* new Map(); keys.forEach(k => map.set(k, (map.get(k) || 0) + 1)); Array.from(map.entries())
RECURSIVE MapCount(_)
MapCount(keys) ==
    IF keys = <<>> THEN <<>>
    ELSE LET prev == MapCount(SubSeq(keys, 1, Len(keys) - 1))
             k == keys[Len(keys)]
             at == {i \in DOMAIN prev : prev[i].key = k}
         IN IF at = {}
            THEN Append(prev, [key |-> k, count |-> 1])
            ELSE [i \in DOMAIN prev |->
                    IF i \in at THEN [key |-> k, count |-> prev[i].count + 1] ELSE prev[i]]

\* Array.prototype.sort with a consistent comparator: each entry goes to its
\* rank under the strict total order `before` over the indices of entries
Sorted(entries, before) ==
    LET rank(i) == Cardinality({j \in DOMAIN entries : <<j, i>> \in before}) + 1
    IN [r \in DOMAIN entries |-> entries[CHOOSE i \in DOMAIN entries : rank(i) = r]]

\* SortByCountDesc under a sort that is not stable: ties come out reversed
SortByCountDescUnstable(entries) ==
    Sorted(entries, {<<j, i>> \in (DOMAIN entries) \X (DOMAIN entries) :
                        \/ entries[j].count > entries[i].count
                        \/ entries[j].count = entries[i].count /\ j > i})

\* SortByCountDesc with the comparator reversed: a.count - b.count
SortByCountAsc(entries) ==
    Sorted(entries, {<<j, i>> \in (DOMAIN entries) \X (DOMAIN entries) :
                        \/ entries[j].count < entries[i].count
                        \/ entries[j].count = entries[i].count /\ j < i})

\* .sort((a, b) => b.count - a.count): the sort is stable, so entries that
\* compare equal keep their order
SortByCountDesc(entries) ==
    Sorted(entries, {<<j, i>> \in (DOMAIN entries) \X (DOMAIN entries) :
                        \/ entries[j].count > entries[i].count
                        \/ entries[j].count = entries[i].count /\ j < i})

\* Slice with an off-by-one end index
SliceOneMore(s, n) == SubSeq(s, 1, IF Len(s) < n + 1 THEN Len(s) ELSE n + 1)

\* .slice(0, n)
Slice(s, n) == SubSeq(s, 1, IF Len(s) < n THEN Len(s) ELSE n)

PageViewCap == 10
SearchCap == 10
BrandCap == 10
UserCap == 10
ErrorCap == 15

\* date.getHours()
getHours(timestamp) == timestamp % 24

\* `${hour}:00` as a sequence of character codes
HourLabel(hour) ==
    (IF hour < 10 THEN <<48 + hour>> ELSE <<48 + (hour \div 10), 48 + (hour % 10)>>)
        \o <<58, 48, 48>>

\* String.prototype.localeCompare is implementation-defined: the engine's
\* collation either puts punctuation before digits (ICU root collation) or
\* compares code units.
Collations == {"icu", "codeunit"}

CollationKey(c, collation) == IF collation = "icu" /\ c = 58 THEN 0 ELSE c

\* a.localeCompare(b) < 0
LocaleBefore(a, b, collation) ==
    LET n == IF Len(a) < Len(b) THEN Len(a) ELSE Len(b)
        diff == {i \in 1..n : a[i] # b[i]}
        first == CHOOSE i \in diff : \A j \in diff : i <= j
    IN IF diff = {} THEN Len(a) < Len(b)
       ELSE CollationKey(a[first], collation) < CollationKey(b[first], collation)

\* SortByHour comparing the hours as numbers
SortByHourNumeric(entries, collation) ==
    LET Value(l) == IF Len(l) = 4 THEN l[1] - 48 ELSE 10 * (l[1] - 48) + (l[2] - 48)
    IN Sorted(entries, {<<j, i>> \in (DOMAIN entries) \X (DOMAIN entries) :
                           \/ Value(entries[j].key) < Value(entries[i].key)
                           \/ entries[j].key = entries[i].key /\ j < i})

\* .sort((a, b) => a.hour.localeCompare(b.hour))
SortByHour(entries, collation) ==
    Sorted(entries, {<<j, i>> \in (DOMAIN entries) \X (DOMAIN entries) :
                        \/ LocaleBefore(entries[j].key, entries[i].key, collation)
                        \/ entries[j].key = entries[i].key /\ j < i})

\* PageViews with the test e.path !== null
PageViewsNonNull(evs) ==
    LET Qualifies(e) == e.path # NULL
        kept == SelectSeq(evs, Qualifies)
        keys == [i \in DOMAIN kept |-> kept[i].path]
    IN Slice(SortByCountDesc(MapCount(keys)), PageViewCap)

\* // Page views: if (e.path) pageViewMap.set(e.path, ...)
PageViews(evs) ==
    LET Qualifies(e) == Truthy(e.path)
        kept == SelectSeq(evs, Qualifies)
        keys == [i \in DOMAIN kept |-> kept[i].path]
    IN Slice(SortByCountDesc(MapCount(keys)), PageViewCap)

\* TopSearchedCodes without the event_type test
TopSearchedCodesAnyType(evs) ==
    LET Qualifies(e) == Truthy(MetaGet(e, "code"))
        kept == SelectSeq(evs, Qualifies)
        keys == [i \in DOMAIN kept |-> MetaGet(kept[i], "code")]
    IN Slice(SortByCountDesc(MapCount(keys)), SearchCap)

\* // Searches: if (e.event_type === "search" && e.meta?.code) searchMap.set(e.meta.code, ...)
TopSearchedCodes(evs) ==
    LET Qualifies(e) == e.event_type = "search" /\ Truthy(MetaGet(e, "code"))
        kept == SelectSeq(evs, Qualifies)
        keys == [i \in DOMAIN kept |-> MetaGet(kept[i], "code")]
    IN Slice(SortByCountDesc(MapCount(keys)), SearchCap)

\* // Brands: if (e.meta?.brand) brandMap.set(e.meta.brand, ...)
TopBrands(evs) ==
    LET Qualifies(e) == Truthy(MetaGet(e, "brand"))
        kept == SelectSeq(evs, Qualifies)
        keys == [i \in DOMAIN kept |-> MetaGet(kept[i], "brand")]
    IN Slice(SortByCountDesc(MapCount(keys)), BrandCap)

\* // Active users: if (e.user_id) userMap.set(e.user_id, ...)
TopUsers(evs) ==
    LET Qualifies(e) == Truthy(e.user_id)
        kept == SelectSeq(evs, Qualifies)
        keys == [i \in DOMAIN kept |-> kept[i].user_id]
    IN Slice(SortByCountDesc(MapCount(keys)), UserCap)

\* // Error code frequency: if (e.meta?.errorCode) errorMap.set(e.meta.errorCode, ...)
ErrorCodeFrequency(evs) ==
    LET Qualifies(e) == Truthy(MetaGet(e, "errorCode"))
        kept == SelectSeq(evs, Qualifies)
        keys == [i \in DOMAIN kept |-> MetaGet(kept[i], "errorCode")]
    IN Slice(SortByCountDesc(MapCount(keys)), ErrorCap)

\* // Activity by hour: every event is counted under its hour label; no slice
ActivityByHour(evs, collation) ==
    LET keys == [i \in DOMAIN evs |-> HourLabel(getHours(evs[i].timestamp))]
    IN SortByHour(MapCount(keys), collation)

RECURSIVE SumCounts(_)
\* list.reduce((sum, c) => sum + c.count, 0)
SumCounts(list) ==
    IF list = <<>> THEN 0 ELSE SumCounts(SubSeq(list, 1, Len(list) - 1)) + list[Len(list)].count

\* TotalPageViews counting only the page_view events
TotalPageViewsOnlyPageViews(evs) ==
    LET IsPageView(e) == e.event_type = "page_view"
    IN Len(SelectSeq(evs, IsPageView))

\* totalPageViews: events.length
TotalPageViews(evs) == Len(evs)

\* TotalSearches counted over the whole searchMap, before the slice
TotalSearchesUntruncated(evs) ==
    LET IsSearch(e) == e.event_type = "search" /\ Truthy(MetaGet(e, "code"))
    IN Len(SelectSeq(evs, IsSearch))

\* totalSearches: topSearchedCodes.reduce(...) over the sliced list
TotalSearches(evs) == SumCounts(TopSearchedCodes(evs))

\* the object returned at the end of the try block
ComputeStats(evs, collation) ==
       [totalPageViews |-> TotalPageViews(evs),
        totalSearches |-> TotalSearches(evs),
        pageViews |-> PageViews(evs),
        topSearchedCodes |-> TopSearchedCodes(evs),
        topBrands |-> TopBrands(evs),
        topUsers |-> TopUsers(evs),
        errorCodeFrequency |-> ErrorCodeFrequency(evs),
        activityByHour |-> ActivityByHour(evs, collation)]

\* the object returned by the catch block
EmptyStats ==
    [totalPageViews |-> 0, totalSearches |-> 0, pageViews |-> <<>>,
     topSearchedCodes |-> <<>>, topBrands |-> <<>>, topUsers |-> <<>>,
     errorCodeFrequency |-> <<>>, activityByHour |-> <<>>]

\* OnCatch with the error rethrown to the caller
OnCatchRethrow == [pc |-> "threw", stats |-> EmptyStats]

\* catch (error) { console.error(...); return {...} }
OnCatch == [pc |-> "returned", stats |-> EmptyStats]

\* the rows the aggregation runs on: the query's arguments never include eventType
Fetched(rows, f) == Query(rows, f)

----------------------------------------------------------------------------
(* Initial states: a table already holding n rows, the i-th newest written *)
(* by user i on page i through trackEvent("search", ...) about key i.      *)

SeedTime(i) == 36 - 2 * i

SeedRow(i) == trackEvent(i, i, SeedTime(i), "search", NULL, Meta(i, i, i))

RECURSIVE SeedStore(_)
SeedStore(n) == IF n = 0 THEN <<>> ELSE Append(SeedStore(n - 1), SeedRow(n))

NoFilters == [startDate |-> NULL, endDate |-> NULL, eventType |-> NoType]

Init ==
    /\ \E n \in 0..MaxSeed : store = SeedStore(n)
    /\ nTracked = 0
    /\ pc = "idle"
    /\ filters = NoFilters
    /\ fetch = "ok"
    /\ events = <<>>
    /\ stats = EmptyStats

----------------------------------------------------------------------------
(* Actions *)

\* A row reaches the table; a failed insert is swallowed and changes nothing.
Write(e) ==
    /\ pc = "idle"
    /\ nTracked < MaxExtra
    /\ store' \in Inserted(store, e)
    /\ nTracked' = nTracked + 1
    /\ UNCHANGED <<pc, filters, fetch, events, stats>>

TrackPageView ==
    \E c \in PageViewCalls :
        Write(trackPageView(c.user, c.pathname, c.now, c.path))

TrackSearch ==
    \E c \in SearchCalls :
        Write(trackSearch(c.user, c.pathname, c.now, c.code, c.brand))

TrackClick ==
    \E c \in ClickCalls :
        Write(trackClick(c.user, c.pathname, c.now, Meta(c.code, c.brand, c.errorCode)))

TrackErrorCodeView ==
    \E c \in ErrorCodeViewCalls :
        Write(trackErrorCodeView(c.user, c.pathname, c.now, c.code))

\* A row written by another client of the table: any AnalyticsEvent
InsertRow ==
    \E r \in ForeignRows :
        Write(AnalyticsEvent(r.user_id, "page_view", r.path, NoMeta, r.timestamp))

Call(f, outcome) ==
    /\ pc = "idle"
    /\ filters' = f
    /\ fetch' = outcome
    /\ UNCHANGED <<store, nTracked>>

\* try block runs to its return
GetAnalyticsStats ==
    \E f \in FilterSets, collation \in Collations :
        /\ Call(f, "ok")
        /\ events' = Fetched(store, f)
        /\ stats' = ComputeStats(events', collation)
        /\ pc' = "returned"

\* `data` is null without an error: (data as AnalyticsEvent[]) || []
GetAnalyticsStatsNoData ==
    \E f \in FilterSets, collation \in Collations :
        /\ Call(f, "null")
        /\ events' = <<>>
        /\ stats' = ComputeStats(events', collation)
        /\ pc' = "returned"

\* the query resolves with an error: if (error) throw error
GetAnalyticsStatsError ==
    \E f \in FilterSets :
        /\ Call(f, "error")
        /\ events' = <<>>
        /\ stats' = OnCatch.stats
        /\ pc' = OnCatch.pc

\* awaiting the query throws
GetAnalyticsStatsThrow ==
    \E f \in FilterSets :
        /\ Call(f, "throw")
        /\ events' = <<>>
        /\ stats' = OnCatch.stats
        /\ pc' = OnCatch.pc

Next ==
    \/ TrackPageView
    \/ TrackSearch
    \/ TrackClick
    \/ TrackErrorCodeView
    \/ InsertRow
    \/ GetAnalyticsStats
    \/ GetAnalyticsStatsNoData
    \/ GetAnalyticsStatsError
    \/ GetAnalyticsStatsThrow

Spec == Init /\ [][Next]_vars

----------------------------------------------------------------------------
(* Properties.  They are stated over the delivered `events` and the        *)
(* returned `stats` directly, without the aggregation operators above.     *)

\* the call went through the try block
Aggregated == pc = "returned" /\ fetch \in {"ok", "null"}

RankedLists == {"pageViews", "topSearchedCodes", "topBrands", "topUsers", "errorCodeFrequency"}

Present(v) == v # NULL /\ v # EMPTY

GroupKey(L, e) ==
    CASE L = "pageViews" -> e.path
      [] L = "topSearchedCodes" -> e.meta.code
      [] L = "topBrands" -> e.meta.brand
      [] L = "topUsers" -> e.user_id
      [] L = "errorCodeFrequency" -> e.meta.errorCode

Counted(L, e) ==
    /\ Present(GroupKey(L, e))
    /\ L \in {"topSearchedCodes", "topBrands", "errorCodeFrequency"} => e.meta.present
    /\ L = "topSearchedCodes" => e.event_type = "search"

CapOf(L) == IF L = "errorCodeFrequency" THEN 15 ELSE 10

Occurrences(L, k) == {i \in DOMAIN events : Counted(L, events[i]) /\ GroupKey(L, events[i]) = k}

GroupKeys(L) == {GroupKey(L, events[i]) : i \in {j \in DOMAIN events : Counted(L, events[j])}}

FirstSeen(L, k) == CHOOSE i \in Occurrences(L, k) : \A j \in Occurrences(L, k) : i <= j

ListKeys(list) == {list[i].key : i \in DOMAIN list}

TotalOf(list) == Cardinality({<<i, c>> \in (DOMAIN list) \X (1..Len(events)) : c <= list[i].count})

NonIncreasing(list) == \A i \in 1..Len(list) - 1 : list[i].count >= list[i + 1].count

AllPositive(list) == \A i \in DOMAIN list : list[i].count > 0

InDateRange(e) ==
    /\ (filters.startDate # NULL => e.timestamp >= filters.startDate)
    /\ (filters.endDate # NULL => e.timestamp <= filters.endDate)

\* C1: with an eventType filter, the statistics are computed only from the
\* events whose event_type equals the filter: no other event is aggregated
\* and totalPageViews counts only the matching rows of the date range.
C1_EventTypeFilterApplied ==
    (pc = "returned" /\ fetch = "ok" /\ filters.eventType # NoType) =>
        /\ \A i \in DOMAIN events : events[i].event_type = filters.eventType
        /\ stats.totalPageViews =
             Cardinality({i \in DOMAIN store : /\ InDateRange(store[i])
                                               /\ store[i].event_type = filters.eventType})

\* C2: totalSearches is the sum of the counts of the returned, truncated
\* topSearchedCodes list; with more than 10 distinct searched codes it is
\* smaller than the number of search events carrying a code.
C2_TotalSearchesSumsTruncatedList ==
    Aggregated =>
        /\ stats.totalSearches = TotalOf(stats.topSearchedCodes)
        /\ Cardinality(GroupKeys("topSearchedCodes")) > 10 =>
             stats.totalSearches <
                Cardinality({i \in DOMAIN events : Counted("topSearchedCodes", events[i])})

C2_Witness ==
    /\ Aggregated
    /\ Cardinality(GroupKeys("topSearchedCodes")) = 11
    /\ Cardinality({i \in DOMAIN events : Counted("topSearchedCodes", events[i])}) = 11
    /\ Len(stats.topSearchedCodes) = 10
    /\ stats.totalSearches = 10

\* C3: when the fetch fails (error returned or thrown), the call completes
\* normally and returns zero totals and six empty lists.
C3_FetchFailureReturnsZeroStats ==
    (pc # "idle" /\ fetch \in {"error", "throw"}) =>
        /\ pc = "returned"
        /\ stats.totalPageViews = 0
        /\ stats.totalSearches = 0
        /\ stats.pageViews = <<>>
        /\ stats.topSearchedCodes = <<>>
        /\ stats.topBrands = <<>>
        /\ stats.topUsers = <<>>
        /\ stats.errorCodeFrequency = <<>>
        /\ stats.activityByHour = <<>>

C3_Witness == pc = "returned" /\ fetch = "throw" /\ Len(store) > 0

\* C4: in each of the five count-ranked lists, entries with equal count are
\* in the order their keys were first seen in the delivered events, and of
\* the groups with equal count straddling the cap the earlier-seen are kept.
C4_TiesInFirstSeenOrder ==
    Aggregated =>
        \A L \in RankedLists :
            LET list == stats[L]
            IN /\ \A i, j \in DOMAIN list :
                    (i < j /\ list[i].count = list[j].count) =>
                        FirstSeen(L, list[i].key) < FirstSeen(L, list[j].key)
               /\ \A d \in GroupKeys(L) \ ListKeys(list) : \A i \in DOMAIN list :
                    list[i].count = Cardinality(Occurrences(L, d)) =>
                        FirstSeen(L, list[i].key) < FirstSeen(L, d)

C4_Witness ==
    /\ Aggregated
    /\ LET list == stats.topBrands
       IN /\ Len(list) = 10
          /\ list[1].count = 2
          /\ list[9].count = 1 /\ list[10].count = 1
          /\ \E d \in GroupKeys("topBrands") \ ListKeys(list) :
                Cardinality(Occurrences("topBrands", d)) = 1

\* C5 as stated: in all six lists every count is positive and the counts
\* are non-increasing.
C5_AllSixListsNonIncreasing ==
    Aggregated =>
        /\ \A L \in RankedLists : AllPositive(stats[L]) /\ NonIncreasing(stats[L])
        /\ AllPositive(stats.activityByHour) /\ NonIncreasing(stats.activityByHour)

\* C5 amended: in the five count-ranked lists every count is positive and
\* the counts are non-increasing; in activityByHour every count is positive.
C5_RankedListsNonIncreasing ==
    Aggregated =>
        /\ \A L \in RankedLists : AllPositive(stats[L]) /\ NonIncreasing(stats[L])
        /\ AllPositive(stats.activityByHour)

C5_Witness ==
    /\ Aggregated
    /\ Len(stats.pageViews) >= 3
    /\ stats.pageViews[1].count > stats.pageViews[2].count
    /\ ~NonIncreasing(stats.activityByHour)

\* the label of hour h, h not zero-padded
LabelOf(h) ==
    IF h < 10 THEN <<48 + h, 58, 48, 48>> ELSE <<48 + (h \div 10), 48 + (h % 10), 58, 48, 48>>

\* lexicographic order of labels, with the colon ranked before or after the digits
LexBefore(a, b, colon) ==
    LET Rank(c) == IF c = 58 THEN colon ELSE c
        n == IF Len(a) < Len(b) THEN Len(a) ELSE Len(b)
    IN \/ \E i \in 1..n : /\ \A j \in 1..i - 1 : a[j] = b[j]
                          /\ Rank(a[i]) < Rank(b[i])
       \/ Len(a) < Len(b) /\ \A j \in 1..n : a[j] = b[j]

PositionOf(list, k) == CHOOSE i \in DOMAIN list : list[i].key = k

EventHours == {events[i].timestamp % 24 : i \in DOMAIN events}

\* C6: activityByHour has exactly one entry per distinct hour label among the
\* events, in lexicographic order of the labels: "10:00" before "2:00" before "9:00".
C6_ActivityByHourLexicographic ==
    Aggregated =>
        LET list == stats.activityByHour
        IN /\ ListKeys(list) = {LabelOf(h) : h \in EventHours}
           /\ Len(list) = Cardinality(EventHours)
           /\ \E colon \in {0, 100} :
                \A i \in 1..Len(list) - 1 : LexBefore(list[i].key, list[i + 1].key, colon)
           /\ {2, 10} \subseteq EventHours =>
                PositionOf(list, LabelOf(10)) < PositionOf(list, LabelOf(2))
           /\ {2, 9} \subseteq EventHours =>
                PositionOf(list, LabelOf(2)) < PositionOf(list, LabelOf(9))

C6_Witness ==
    /\ Aggregated
    /\ {2, 9, 10} \subseteq EventHours
    /\ PositionOf(stats.activityByHour, LabelOf(10)) < PositionOf(stats.activityByHour, LabelOf(2))
    /\ PositionOf(stats.activityByHour, LabelOf(2)) < PositionOf(stats.activityByHour, LabelOf(9))

\* C7: each count-ranked list has exactly min(cap, number of distinct
\* qualifying keys) entries: at most 10, or 15 for errorCodeFrequency.
C7_ListLengths ==
    Aggregated =>
        \A L \in RankedLists :
            LET distinct == Cardinality(GroupKeys(L))
            IN /\ Len(stats[L]) <= CapOf(L)
               /\ Len(stats[L]) = IF distinct < CapOf(L) THEN distinct ELSE CapOf(L)

C7_Witness ==
    /\ Aggregated
    /\ Cardinality(GroupKeys("errorCodeFrequency")) > 15
    /\ Len(stats.errorCodeFrequency) = 15
    /\ Cardinality(GroupKeys("topUsers")) > 10
    /\ Len(stats.topUsers) = 10

\* C8: every topSearchedCodes entry counts exactly the search events with
\* that code, every topBrands entry the events with that brand whatever
\* their type, every topUsers entry the events of that user; events with a
\* null userId produce no entry.
C8_CountsExact ==
    Aggregated =>
        /\ \A i \in DOMAIN stats.topSearchedCodes :
             LET c == stats.topSearchedCodes[i].key
             IN stats.topSearchedCodes[i].count =
                  Cardinality({j \in DOMAIN events : /\ events[j].event_type = "search"
                                                     /\ events[j].meta.present
                                                     /\ events[j].meta.code = c})
        /\ \A i \in DOMAIN stats.topBrands :
             LET b == stats.topBrands[i].key
             IN stats.topBrands[i].count =
                  Cardinality({j \in DOMAIN events : /\ events[j].meta.present
                                                     /\ events[j].meta.brand = b})
        /\ \A i \in DOMAIN stats.topUsers :
             LET u == stats.topUsers[i].key
             IN /\ u # NULL
                /\ stats.topUsers[i].count =
                     Cardinality({j \in DOMAIN events : events[j].user_id = u})

C8_Witness ==
    /\ Aggregated
    /\ \E i \in DOMAIN stats.topSearchedCodes :
          \E j \in DOMAIN events : /\ events[j].event_type # "search"
                                   /\ events[j].meta.present
                                   /\ events[j].meta.code = stats.topSearchedCodes[i].key
    /\ \E j \in DOMAIN events : events[j].user_id = NULL
    /\ Len(stats.topUsers) > 0
    /\ \E i \in DOMAIN stats.topBrands :
          \E j \in DOMAIN events : /\ events[j].event_type # "search"
                                   /\ events[j].meta.present
                                   /\ events[j].meta.brand = stats.topBrands[i].key

NonNullPaths == {events[i].path : i \in {j \in DOMAIN events : events[j].path # NULL}}

NonEmptyPaths == NonNullPaths \ {EMPTY}

PathCount(p) == Cardinality({i \in DOMAIN events : events[i].path = p})

\* C9 as stated: with at most 10 distinct non-null paths, pageViews has
\* exactly one entry per distinct non-null path, whatever string it is, with
\* the number of events carrying it.
C9_EveryNonNullPathGrouped ==
    (Aggregated /\ Cardinality(NonNullPaths) <= 10) =>
        /\ ListKeys(stats.pageViews) = NonNullPaths
        /\ Len(stats.pageViews) = Cardinality(NonNullPaths)
        /\ \A i \in DOMAIN stats.pageViews :
              stats.pageViews[i].count = PathCount(stats.pageViews[i].key)

\* C9 amended: with at most 10 distinct non-null, non-empty paths, pageViews
\* has exactly one entry per distinct non-null, non-empty path, with the
\* number of events carrying it.
C9_EveryNonEmptyPathGrouped ==
    (Aggregated /\ Cardinality(NonEmptyPaths) <= 10) =>
        /\ ListKeys(stats.pageViews) = NonEmptyPaths
        /\ Len(stats.pageViews) = Cardinality(NonEmptyPaths)
        /\ \A i \in DOMAIN stats.pageViews :
              stats.pageViews[i].count = PathCount(stats.pageViews[i].key)

C9_Witness ==
    /\ Aggregated
    /\ \E i \in DOMAIN events : events[i].path = EMPTY
    /\ \E i \in DOMAIN events : events[i].path = NULL
    /\ Len(stats.pageViews) >= 2
    /\ Cardinality(NonEmptyPaths) <= 10

\* C10: totalPageViews is the number of fetched events whatever their
\* eventType, path, meta or userId; for the empty collection it is 0 and
\* all lists are empty.
C10_TotalPageViewsIsCollectionSize ==
    Aggregated =>
        /\ stats.totalPageViews = Len(events)
        /\ fetch = "ok" =>
             stats.totalPageViews = Cardinality({i \in DOMAIN store : InDateRange(store[i])})
        /\ events = <<>> =>
             /\ stats.totalPageViews = 0
             /\ stats.totalSearches = 0
             /\ \A L \in RankedLists : stats[L] = <<>>
             /\ stats.activityByHour = <<>>

C10_Witness ==
    /\ Aggregated
    /\ stats.totalPageViews >= 3
    /\ \E i \in DOMAIN events : events[i].event_type = "page_view"
    /\ \E i \in DOMAIN events : events[i].event_type = "search"
    /\ \E i \in DOMAIN events : events[i].path = NULL /\ events[i].user_id = NULL

====
